---- MODULE Spec2Model ----
(***************************************************************************)
(* A model of src/stock_analysis.py: the statement extractor, the money    *)
(* and percentage formatting, the metrics calculator, the news retriever   *)
(* and the two spreadsheet entry points analyze_stock and compare_stocks.  *)
(*                                                                         *)
(* Python values are records [t, n, e, s]:                                 *)
(*   t = "None"    the object None                                         *)
(*   t = "absent"  a key that is not in a mapping                          *)
(*   t = "num"     the number n * 10^e (a decimal floating-point number)   *)
(*   t = "nan"     the float NaN (pandas' missing value)                   *)
(*   t = "str"     the string whose characters are the sequence s          *)
(***************************************************************************)
EXTENDS Integers, Sequences, FiniteSets, TLC

\* ------------------------------------------------------------------------
\* Bounds of the model
\* ------------------------------------------------------------------------
\* how many quote fields of a snapshot deviate from its base profile
MaxDeviations == 1
\* how many items a news source returns at most is MaxSourceItems
MaxSourceItems == 11
\* how many collaborator calls (sheet, chart, picture, news) raise in one
\* behaviour of the entry points
MaxFaults == 1
\* the largest decimal exponent of a money amount
MaxMoneyExp == 10

\* ------------------------------------------------------------------------
\* Python values
\* ------------------------------------------------------------------------
PyNone == [t |-> "None", n |-> 0, e |-> 0, s |-> <<>>]
Absent == [t |-> "absent", n |-> 0, e |-> 0, s |-> <<>>]
NaN == [t |-> "nan", n |-> 0, e |-> 0, s |-> <<>>]
Num(m, ex) == [t |-> "num", n |-> m, e |-> ex, s |-> <<>>]
Str(chars) == [t |-> "str", n |-> 0, e |-> 0, s |-> chars]

NA == Str(<<"N", "/", "A">>)

\* dict.get(key, default): the default replaces an absent key only
Get(v, default) == IF v.t = "absent" THEN default ELSE v

\* Python truthiness: None, 0 and "" are falsy; NaN is truthy
Truthy(v) ==
    CASE v.t = "None" -> FALSE
      [] v.t = "absent" -> FALSE
      [] v.t = "num" -> v.n # 0
      [] v.t = "nan" -> TRUE
      [] OTHER -> v.s # <<>>

\* ------------------------------------------------------------------------
\* Decimal arithmetic on n * 10^e without leaving 32 bits
\* ------------------------------------------------------------------------
RECURSIVE Pow10(_)
Pow10(k) == IF k <= 0 THEN 1 ELSE 10 * Pow10(k - 1)

Abs(x) == IF x < 0 THEN -x ELSE x

\* a / b (a >= 0, b > 0) rounded to the nearest integer, ties to even
RoundDiv(a, b) ==
    LET q == a \div b
        r == a % b
    IN  IF 2 * r < b THEN q
        ELSE IF 2 * r > b THEN q + 1
        ELSE IF q % 2 = 0 THEN q ELSE q + 1

\* m * 10^ex >= 10^k, for m >= 0
GePow10(m, ex, k) ==
    IF m = 0 THEN FALSE
    ELSE IF ex >= k THEN TRUE
    ELSE IF k - ex > 9 THEN FALSE
    ELSE m >= Pow10(k - ex)

\* m * 10^ex (m >= 0) rounded to an integer
Scaled(m, ex) ==
    IF ex >= 0 THEN m * Pow10(ex)
    ELSE IF -ex > 9 THEN 0
    ELSE RoundDiv(m, Pow10(-ex))

\* ------------------------------------------------------------------------
\* Number formatting: the characters Python's format() produces
\* ------------------------------------------------------------------------
DigitChar == <<"0", "1", "2", "3", "4", "5", "6", "7", "8", "9">>

RECURSIVE Digits(_)
Digits(k) ==
    IF k < 10 THEN <<DigitChar[k + 1]>>
    ELSE Digits(k \div 10) \o <<DigitChar[(k % 10) + 1]>>

\* the "," option of format(): a comma before every group of three digits
RECURSIVE Grouped(_)
Grouped(k) ==
    IF k < 1000 THEN Digits(k)
    ELSE Grouped(k \div 1000) \o <<",">>
         \o <<DigitChar[((k \div 100) % 10) + 1],
              DigitChar[((k \div 10) % 10) + 1],
              DigitChar[(k % 10) + 1]>>

\* ".2f" of h hundredths, h >= 0
Fixed2(h) ==
    Digits(h \div 100) \o <<".">>
    \o <<DigitChar[((h \div 10) % 10) + 1], DigitChar[(h % 10) + 1]>>

SignOf(m) == IF m < 0 THEN <<"-">> ELSE <<>>

NanChars == <<"n", "a", "n">>

\* f"{v:.2f}" of the number m * 10^ex
Fmt2f(m, ex) == SignOf(m) \o Fixed2(Scaled(Abs(m), ex + 2))

\* ------------------------------------------------------------------------
\* fmt_money (lines 77-93)
\* ------------------------------------------------------------------------
IsDigit(c) == \E i \in 1..10 : DigitChar[i] = c
DigitVal(c) == (CHOOSE i \in 1..10 : DigitChar[i] = c) - 1

RECURSIVE ParseDigits(_)
ParseDigits(chars) ==
    IF chars = <<>> THEN 0
    ELSE 10 * ParseDigits(SubSeq(chars, 1, Len(chars) - 1))
         + DigitVal(chars[Len(chars)])

\* float(x): a number stays, a string of digits is parsed, the string
\* Infinity is the float inf, any other string (and None) raises, which is
\* the result "raise"
ToFloat(x) ==
    CASE x.t = "num" -> x
      [] x.t = "nan" -> x
      [] x.t = "str" /\ x.s = <<"I", "n", "f", "i", "n", "i", "t", "y">>
            -> [t |-> "inf", n |-> 0, e |-> 0, s |-> <<>>]
      [] x.t = "str" /\ x.s # <<>> /\ \A i \in 1..Len(x.s) : IsDigit(x.s[i])
            -> Num(ParseDigits(x.s), 0)
      [] OTHER -> [t |-> "raise", n |-> 0, e |-> 0, s |-> <<>>]

MoneyOfNum(m, ex) ==
    LET sign == SignOf(m)
        a == Abs(m)
    IN  IF GePow10(a, ex, 12)
          THEN sign \o <<"$">> \o Fixed2(Scaled(a, ex - 10)) \o <<"T">>
        ELSE IF GePow10(a, ex, 9)
          THEN sign \o <<"$">> \o Fixed2(Scaled(a, ex - 7)) \o <<"B">>
        ELSE IF GePow10(a, ex, 6)
          THEN sign \o <<"$">> \o Fixed2(Scaled(a, ex - 4)) \o <<"M">>
        ELSE sign \o <<"$">> \o Grouped(Scaled(a, ex))

\* a fmt_money that hands a number back unformatted
fmt_money_unformatted(x) == IF x.t = "None" THEN NA ELSE x

fmt_money(x) ==
    IF x.t = "None" THEN NA
    ELSE LET f == ToFloat(x)
         IN  CASE f.t = "raise" -> NA
               [] f.t = "nan" -> Str(<<"$">> \o NanChars)
               [] f.t = "inf" -> Str(<<"$", "i", "n", "f", "T">>)
               [] OTHER -> Str(MoneyOfNum(f.n, f.e))

\* ------------------------------------------------------------------------
\* get_statement_metrics (lines 26-74)
\* ------------------------------------------------------------------------
\* A statement table as the extractor sees it: kind says what the attribute
\* access gives ("raise": the access raises, "None", "empty": a frame with
\* no cell, "frame"), and row[r] the most recent column's cell of row r:
\* st = "missing" (no such row), "ok" (value v) or "raise" (reading raises).
FinRows == <<"Total Revenue", "Net Income", "Operating Income", "EBITDA">>
FinKeys == <<"Revenue (TTM)", "Net Income (TTM)", "Operating Income (TTM)",
             "EBITDA (TTM)">>
CfRows == <<"Total Cash From Operating Activities", "Capital Expenditures">>
CfKeys == <<"Cash From Ops (TTM)", "CapEx (TTM)">>

StmtKeys == {"Revenue (TTM)", "Net Income (TTM)", "Operating Income (TTM)",
             "EBITDA (TTM)", "Cash From Ops (TTM)", "CapEx (TTM)",
             "Free Cash Flow (TTM)"}

EmptyOut == [k \in StmtKeys |-> PyNone]

\* the rows of one try block read in order; the first read that raises
\* leaves the block (except: pass), so rows i.. are not read
RECURSIVE ReadRows(_, _, _, _, _)
ReadRows(out, tbl, rows, keys, i) ==
    IF i > Len(rows) THEN [out |-> out, raised |-> FALSE]
    ELSE LET c == tbl.row[rows[i]]
         IN  CASE c.st = "missing" -> ReadRows(out, tbl, rows, keys, i + 1)
               [] c.st = "raise" -> [out |-> out, raised |-> TRUE]
               [] OTHER ->
                    ReadRows([out EXCEPT ![keys[i]] = c.v], tbl, rows, keys,
                             i + 1)

ReadTable(out, tbl, rows, keys) ==
    IF tbl.kind = "frame" THEN ReadRows(out, tbl, rows, keys, 1)
    ELSE [out |-> out, raised |-> (tbl.kind = "raise")]

\* cfo + capex on numbers; NaN propagates
PyAdd(a, b) ==
    IF a.t = "nan" \/ b.t = "nan" THEN NaN
    ELSE LET lo == IF a.e < b.e THEN a.e ELSE b.e
         IN  Num(a.n * Pow10(a.e - lo) + b.n * Pow10(b.e - lo), lo)

\* a free cash flow that takes CapEx off once more: cfo - capex
FreeCashFlowLessCapex(out) ==
    LET cfo == out["Cash From Ops (TTM)"]
        capex == out["CapEx (TTM)"]
    IN  IF cfo.t # "None" /\ capex.t # "None"
          THEN [out EXCEPT !["Free Cash Flow (TTM)"] =
                              PyAdd(cfo, [capex EXCEPT !.n = -@])]
          ELSE out

\* lines 67-70
FreeCashFlow(out) ==
    LET cfo == out["Cash From Ops (TTM)"]
        capex == out["CapEx (TTM)"]
    IN  IF cfo.t # "None" /\ capex.t # "None"
          THEN [out EXCEPT !["Free Cash Flow (TTM)"] = PyAdd(cfo, capex)]
          ELSE out

get_statement_metrics(stock) ==
    LET inc == ReadTable(EmptyOut, stock.financials, FinRows, FinKeys)
        cf == ReadTable(inc.out, stock.cashflow, CfRows, CfKeys)
    IN  IF cf.raised \/ stock.cashflow.kind # "frame" THEN cf.out
        ELSE FreeCashFlow(cf.out)

\* ------------------------------------------------------------------------
\* calculate_key_metrics (lines 126-242)
\* ------------------------------------------------------------------------
\* The result of evaluating one assignment of the try block: the value
\* stored, or raise = TRUE when the evaluation raises.
Ok(v) == [raise |-> FALSE, v |-> v]
Raise == [raise |-> TRUE, v |-> PyNone]

QuoteFields == {"returnOnEquity", "revenueGrowth", "earningsGrowth",
                "currentPrice", "marketCap", "fiftyTwoWeekHigh",
                "fiftyTwoWeekLow", "trailingPE", "forwardPE",
                "priceToSalesTrailing12Months", "dividendYield",
                "payoutRatio", "beta", "longName", "sector", "industry"}

\* info is [isNone, f]: the object None, or the mapping f
InfoField(info, key) == info.f[key]

Pct == <<"%">>

\* f"{(a / b) * 100:.2f}%", b a number that is not 0
RatioPct(a, b) ==
    CASE a.t = "nan" \/ b.t = "nan" -> Ok(Str(NanChars \o Pct))
      [] a.t = "num" /\ b.t = "num" ->
           LET d == a.e - b.e + 4
               h == IF d >= 0 THEN RoundDiv(Abs(a.n) * Pow10(d), Abs(b.n))
                    ELSE RoundDiv(Abs(a.n), Abs(b.n) * Pow10(-d))
               neg == (a.n < 0) # (b.n < 0)
           IN  Ok(Str((IF neg THEN <<"-">> ELSE <<>>) \o Fixed2(h) \o Pct))
      [] OTHER -> Raise

\* lines 151-154: revenue and revenue != 0 and x is not None
Margin(x, revenue) ==
    IF Truthy(revenue) /\ ~(revenue.t = "num" /\ revenue.n = 0)
       /\ x.t # "None"
      THEN RatioPct(x, revenue)
      ELSE Ok(NA)

\* lines 169-173: v = info.get(key, None); f"{v * 100:.2f}%" unless v is None
FieldPct(info, key) ==
    IF info.isNone THEN Raise
    ELSE LET v == Get(InfoField(info, key), PyNone)
         IN  CASE v.t = "None" -> Ok(NA)
               [] v.t = "num" -> Ok(Str(Fmt2f(v.n, v.e + 2) \o Pct))
               [] v.t = "nan" -> Ok(Str(NanChars \o Pct))
               [] OTHER -> Raise

\* lines 201-202: f"${v:.2f}" if v else "N/A"
Dollar2(info, key) ==
    IF info.isNone THEN Raise
    ELSE LET v == Get(InfoField(info, key), PyNone)
         IN  CASE ~Truthy(v) -> Ok(NA)
               [] v.t = "num" -> Ok(Str(<<"$">> \o Fmt2f(v.n, v.e)))
               [] v.t = "nan" -> Ok(Str(<<"$">> \o NanChars))
               [] OTHER -> Raise

\* a - b on numbers
PySub(a, b) ==
    LET lo == IF a.e < b.e THEN a.e ELSE b.e
    IN  Num(a.n * Pow10(a.e - lo) - b.n * Pow10(b.e - lo), lo)

\* lines 205-210
DistanceFromHigh(info) ==
    IF info.isNone THEN Raise
    ELSE LET cp == Get(InfoField(info, "currentPrice"), PyNone)
             hi == Get(InfoField(info, "fiftyTwoWeekHigh"), PyNone)
         IN  IF Truthy(cp) /\ Truthy(hi)
               THEN CASE cp.t = "str" \/ hi.t = "str" -> Raise
                      [] cp.t = "nan" \/ hi.t = "nan"
                           -> Ok(Str(NanChars \o Pct))
                      [] OTHER -> RatioPct(PySub(cp, hi), hi)
               ELSE Ok(NA)

\* round(v, 2) of a number: the nearest multiple of 0.01
Round2(v) ==
    IF v.t = "nan" \/ v.e >= -2 THEN v
    ELSE LET h == Scaled(Abs(v.n), v.e + 2)
         IN  Num(IF v.n < 0 THEN -h ELSE h, -2)

\* lines 215-217 and 237: round(v, 2) if v else "N/A"
Rounded(info, key) ==
    IF info.isNone THEN Raise
    ELSE LET v == Get(InfoField(info, key), PyNone)
         IN  CASE ~Truthy(v) -> Ok(NA)
               [] v.t \in {"num", "nan"} -> Ok(Round2(v))
               [] OTHER -> Raise

\* line 195: info.get("currentPrice", "N/A"), stored as it is
CurrentPrice(info) ==
    IF info.isNone THEN Raise
    ELSE Ok(Get(InfoField(info, "currentPrice"), NA))

\* line 196
MarketCap(info) ==
    IF info.isNone THEN Raise
    ELSE Ok(fmt_money(Get(InfoField(info, "marketCap"), PyNone)))

\* The assignments metrics[label] = ... of lines 137-237, in program order
MetricOrder ==
    <<"Revenue (TTM)", "Net Income (TTM)", "Operating Income (TTM)",
      "EBITDA (TTM)", "Profit Margin", "Operating Margin", "EBITDA Margin",
      "Return on Equity (ROE)", "Revenue Growth (YoY)",
      "Earnings Growth (YoY)", "Current Price", "Market Cap", "52-Week High",
      "52-Week Low", "Distance from 52W High", "P/E Ratio", "Forward P/E",
      "Price to Sales (P/S)", "Dividend Yield", "Payout Ratio", "Beta">>

MetricValue(label, info, sm) ==
    CASE label = "Revenue (TTM)" -> Ok(fmt_money(sm["Revenue (TTM)"]))
      [] label = "Net Income (TTM)" -> Ok(fmt_money(sm["Net Income (TTM)"]))
      [] label = "Operating Income (TTM)"
            -> Ok(fmt_money(sm["Operating Income (TTM)"]))
      [] label = "EBITDA (TTM)" -> Ok(fmt_money(sm["EBITDA (TTM)"]))
      [] label = "Profit Margin"
            -> Margin(sm["Net Income (TTM)"], sm["Revenue (TTM)"])
      [] label = "Operating Margin"
            -> Margin(sm["Operating Income (TTM)"], sm["Revenue (TTM)"])
      [] label = "EBITDA Margin"
            -> Margin(sm["EBITDA (TTM)"], sm["Revenue (TTM)"])
      [] label = "Return on Equity (ROE)" -> FieldPct(info, "returnOnEquity")
      [] label = "Revenue Growth (YoY)" -> FieldPct(info, "revenueGrowth")
      [] label = "Earnings Growth (YoY)" -> FieldPct(info, "earningsGrowth")
      [] label = "Current Price" -> CurrentPrice(info)
      [] label = "Market Cap" -> MarketCap(info)
      [] label = "52-Week High" -> Dollar2(info, "fiftyTwoWeekHigh")
      [] label = "52-Week Low" -> Dollar2(info, "fiftyTwoWeekLow")
      [] label = "Distance from 52W High" -> DistanceFromHigh(info)
      [] label = "P/E Ratio" -> Rounded(info, "trailingPE")
      [] label = "Forward P/E" -> Rounded(info, "forwardPE")
      [] label = "Price to Sales (P/S)"
            -> Rounded(info, "priceToSalesTrailing12Months")
      [] label = "Dividend Yield" -> FieldPct(info, "dividendYield")
      [] label = "Payout Ratio" -> FieldPct(info, "payoutRatio")
      [] OTHER -> Rounded(info, "beta")

\* a try block around each assignment: a raise passes over that label only
RECURSIVE RunAssignmentsSkipping(_, _, _, _)
RunAssignmentsSkipping(metrics, i, info, sm) ==
    IF i > Len(MetricOrder) THEN metrics
    ELSE LET r == MetricValue(MetricOrder[i], info, sm)
         IN  RunAssignmentsSkipping(
               IF r.raise THEN metrics
               ELSE Append(metrics, [k |-> MetricOrder[i], v |-> r.v]),
               i + 1, info, sm)

\* the try block: assignments run in order until one raises; the except
\* clause keeps what was stored so far (lines 239-242)
RECURSIVE RunAssignments(_, _, _, _)
RunAssignments(metrics, i, info, sm) ==
    IF i > Len(MetricOrder) THEN metrics
    ELSE LET r == MetricValue(MetricOrder[i], info, sm)
         IN  IF r.raise THEN metrics
             ELSE RunAssignments(
                    Append(metrics, [k |-> MetricOrder[i], v |-> r.v]),
                    i + 1, info, sm)

\* the returned dict, as the sequence of its items in insertion order
calculate_key_metrics(info, sm) == RunAssignments(<<>>, 1, info, sm)

\* metrics.keys() and metrics.get(key, default)
Keys(metrics) == [i \in 1..Len(metrics) |-> metrics[i].k]
MetricsGet(metrics, key, default) ==
    IF \E i \in 1..Len(metrics) : metrics[i].k = key
      THEN metrics[CHOOSE i \in 1..Len(metrics) : metrics[i].k = key].v
      ELSE default

\* ------------------------------------------------------------------------
\* Inputs of the pure functions
\* ------------------------------------------------------------------------
Infinity == Str(<<"I", "n", "f", "i", "n", "i", "t", "y">>)
Zero == Num(0, 0)

\* a quote field as the provider reports it for a listed company
PresentValue(f) ==
    CASE f = "returnOnEquity" -> Num(1523, -4)
      [] f = "revenueGrowth" -> Num(-82, -3)
      [] f = "earningsGrowth" -> Num(5, -2)
      [] f = "currentPrice" -> Num(15025, -2)
      [] f = "marketCap" -> Num(25, 11)
      [] f = "fiftyTwoWeekHigh" -> Num(18012, -2)
      [] f = "fiftyTwoWeekLow" -> Num(1205, -1)
      [] f = "trailingPE" -> Num(284567, -4)
      [] f = "forwardPE" -> Num(25, 0)
      [] f = "priceToSalesTrailing12Months" -> Num(7125, -3)
      [] f = "dividendYield" -> Num(55, -4)
      [] f = "payoutRatio" -> Num(15, -2)
      [] f = "beta" -> Num(1234, -3)
      [] f = "longName" -> Str(<<"A", "c", "m", "e">>)
      [] f = "sector" -> Str(<<"T", "e", "c", "h">>)
      [] OTHER -> Str(<<"S", "o", "f", "t">>)

CalcFields == QuoteFields \ {"longName", "sector", "industry"}

\* what a quote field can hold: no key, None, 0, its number, or the text
\* the provider sends for an unbounded ratio
FieldValues(f) == {Absent, PyNone, Zero, PresentValue(f), Infinity}

FullInfo == [isNone |-> FALSE, f |-> [f \in QuoteFields |-> PresentValue(f)]]
EmptyInfo == [isNone |-> FALSE, f |-> [f \in QuoteFields |-> Absent]]
NoInfo == [isNone |-> TRUE, f |-> [f \in QuoteFields |-> Absent]]

RECURSIVE InfoInputs(_)
InfoInputs(k) ==
    IF k = 0 THEN {FullInfo, EmptyInfo, NoInfo}
    ELSE LET prev == InfoInputs(k - 1)
         IN  prev \cup
             UNION {{[i EXCEPT !.f[fld] = v] :
                        i \in {j \in prev : ~j.isNone}, v \in FieldValues(fld)} :
                    fld \in CalcFields}

\* a statement figure of the extractor's output
FigureValue(key) ==
    CASE key = "Revenue (TTM)" -> Num(3943, 8)
      [] key = "Net Income (TTM)" -> Num(9999, 7)
      [] key = "Operating Income (TTM)" -> Num(1144, 8)
      [] key = "EBITDA (TTM)" -> Num(1305, 8)
      [] key = "Cash From Ops (TTM)" -> Num(5, 9)
      [] key = "CapEx (TTM)" -> Num(-12, 8)
      [] OTHER -> Num(38, 8)

IncomeKeys == {"Revenue (TTM)", "Net Income (TTM)", "Operating Income (TTM)",
               "EBITDA (TTM)"}

\* every subset of the income figures None, the others reported
SubsetFigures ==
    {[k \in StmtKeys |-> IF k \in present THEN FigureValue(k) ELSE PyNone] :
        present \in SUBSET IncomeKeys}

FigureValues(key) == {PyNone, Zero, Num(-12, 8), NaN, FigureValue(key)}

RECURSIVE FigureInputs(_)
FigureInputs(k) ==
    IF k = 0 THEN SubsetFigures
    ELSE LET prev == FigureInputs(k - 1)
         IN  prev \cup
             UNION {{[m EXCEPT ![key] = v] :
                        m \in prev, v \in FigureValues(key)} :
                    key \in IncomeKeys}

AllFigures == [k \in StmtKeys |-> FigureValue(k)]

\* every snapshot with the figures all reported or all None, and every
\* figures mapping with the snapshot full, empty or None
MetricsInputs ==
    (InfoInputs(MaxDeviations) \X {AllFigures, EmptyOut})
    \cup (InfoInputs(0) \X FigureInputs(MaxDeviations))

\* the most recent column of a statement table
CellValues(r) ==
    CASE r = "Total Revenue" -> {Num(3943, 8), NaN}
      [] r = "Net Income" -> {Num(9999, 7), NaN}
      [] r = "Operating Income" -> {Num(1144, 8), NaN}
      [] r = "EBITDA" -> {Num(1305, 8), NaN}
      [] r = "Total Cash From Operating Activities" -> {Num(5, 9), NaN}
      [] OTHER -> {Num(-12, 8), NaN}

Cells(r) ==
    {[st |-> "missing", v |-> PyNone], [st |-> "raise", v |-> PyNone]}
    \cup {[st |-> "ok", v |-> v] : v \in CellValues(r)}

RowSet(rows) == {rows[i] : i \in 1..Len(rows)}

\* a table that is no frame with cells: it has no row to read
NoFrame(kind, rows) ==
    [kind |-> kind,
     row |-> [r \in RowSet(rows) |-> [st |-> "missing", v |-> PyNone]]]

Tables(rows) ==
    {NoFrame(k, rows) : k \in {"raise", "None", "empty"}}
    \cup {[kind |-> "frame", row |-> f] :
            f \in {g \in [RowSet(rows) -> UNION {Cells(r) : r \in RowSet(rows)}] :
                     \A r \in RowSet(rows) : g[r] \in Cells(r)}}

StockInputs ==
    {[financials |-> fin, cashflow |-> cf] :
        fin \in Tables(FinRows), cf \in Tables(CfRows)}

\* what fmt_money is called with: amounts of either sign on both sides of
\* every unit limit, NaN (an empty cell of a statement table), None, and
\* strings with and without a number in them
MoneyMantissas == {1, 5, 12, 999, 1000, 1234, 9999, 99996}

MoneyAmounts ==
    {Zero} \cup {Num(sg * m, ex) : sg \in {1, -1}, m \in MoneyMantissas,
                                   ex \in (-3)..MaxMoneyExp}

MoneyInputs ==
    MoneyAmounts
    \cup {PyNone, NaN, Infinity, Str(<<"a", "b", "c">>), Str(<<>>),
          Str(<<"1", "2", "0", "0">>)}

\* ------------------------------------------------------------------------
\* get_stock_news (lines 244-324)
\* ------------------------------------------------------------------------
\* news[:10] and find_all('item')[:10]
NewsCap == 10

Head10(items) == SubSeq(items, 1, IF Len(items) < NewsCap THEN Len(items) ELSE NewsCap)

\* An item of a source is "good" (appended), "notime" (appended with the
\* published time 'Recent'), "blank" (no title, publisher or link: skipped
\* by the continue of line 268) or "bad" (handling it raises).
NewsItem(src, idx, published) == [src |-> src, idx |-> idx, published |-> published]

\* the for loop of lines 254-274 from item i on: the list so far, and
\* whether an item raised
RECURSIVE PrimaryLoop(_, _, _)
PrimaryLoop(news_data, items, i) ==
    IF i > Len(items) THEN [data |-> news_data, raised |-> FALSE]
    ELSE CASE items[i] = "bad" -> [data |-> news_data, raised |-> TRUE]
           [] items[i] = "blank" -> PrimaryLoop(news_data, items, i + 1)
           [] items[i] = "notime"
                -> PrimaryLoop(Append(news_data, NewsItem("yfinance", i, "Recent")),
                               items, i + 1)
           [] OTHER
                -> PrimaryLoop(Append(news_data, NewsItem("yfinance", i, "time")),
                               items, i + 1)

\* the for loop of lines 290-308
RECURSIVE RssLoop(_, _, _)
RssLoop(news_data, items, i) ==
    IF i > Len(items) THEN [data |-> news_data, raised |-> FALSE]
    ELSE IF items[i] = "bad" THEN [data |-> news_data, raised |-> TRUE]
    ELSE RssLoop(Append(news_data, NewsItem("rss", i, "pubDate")), items, i + 1)

Placeholder == NewsItem("placeholder", 1, "N/A")

\* lines 281-324, entered with the list the first method left
RssAndFallback(news_data, rss) ==
    LET second ==
          IF rss.kind = "ok" THEN RssLoop(news_data, Head10(rss.items), 1)
          ELSE [data |-> news_data, raised |-> (rss.kind = "raise")]
    IN  IF ~second.raised /\ rss.kind = "ok" /\ Len(second.data) > 0
          THEN second.data
        ELSE IF Len(second.data) = 0 THEN <<Placeholder>>
        ELSE second.data

\* primary: [kind, items] with kind "raise" (stock.news raises), "None"
\* (no list) or "list"; rss: [kind, items] with kind "raise" (the request or
\* the parse raises), "status" (not 200) or "ok"
get_stock_news(primary, rss) ==
    LET first ==
          IF primary.kind = "list" /\ Len(primary.items) > 0
            THEN PrimaryLoop(<<>>, Head10(primary.items), 1)
            ELSE [data |-> <<>>, raised |-> (primary.kind = "raise")]
    IN  IF ~first.raised /\ Len(first.data) > 0 THEN first.data
        ELSE RssAndFallback(first.data, rss)

\* the item lists of a source: all good, one item of another kind, all blank
Uniform(n, kind) == [i \in 1..n |-> kind]

ItemLists(kinds) ==
    {Uniform(n, "good") : n \in 0..MaxSourceItems}
    \cup {[Uniform(np[1], "good") EXCEPT ![np[2]] = k] :
            np \in {q \in (1..MaxSourceItems) \X (1..MaxSourceItems) : q[2] <= q[1]},
            k \in kinds}

PrimaryInputs ==
    {[kind |-> k, items |-> <<>>] : k \in {"raise", "None"}}
    \cup {[kind |-> "list", items |-> l] :
            l \in ItemLists({"bad", "blank", "notime"})
                  \cup {Uniform(n, "blank") : n \in 1..MaxSourceItems}}

RssInputs ==
    {[kind |-> k, items |-> <<>>] : k \in {"raise", "status"}}
    \cup {[kind |-> "ok", items |-> l] : l \in ItemLists({"bad"})}

\* ------------------------------------------------------------------------
\* The renderers' sections (lines 459-493 and 759-779): section name and
\* the metric labels under it, in the order of the dict literal
\* ------------------------------------------------------------------------
SingleSections ==
    <<[name |-> "INCOME STATEMENT",
       keys |-> <<"Revenue (TTM)", "Net Income (TTM)",
                  "Operating Income (TTM)", "EBITDA (TTM)">>],
      [name |-> "PROFITABILITY & MARGINS",
       keys |-> <<"Profit Margin", "Operating Margin", "EBITDA Margin",
                  "Return on Equity (ROE)">>],
      [name |-> "GROWTH",
       keys |-> <<"Revenue Growth (YoY)", "Earnings Growth (YoY)">>],
      [name |-> "VALUATION",
       keys |-> <<"Current Price", "Market Cap", "52-Week High",
                  "52-Week Low", "Distance from 52W High", "P/E Ratio",
                  "Forward P/E", "Price to Sales (P/S)">>],
      [name |-> "DIVIDENDS", keys |-> <<"Dividend Yield", "Payout Ratio">>],
      [name |-> "RISK", keys |-> <<"Beta">>]>>

CompareSections ==
    <<[name |-> "INCOME STATEMENT",
       keys |-> <<"Revenue (TTM)", "Net Income (TTM)",
                  "Operating Income (TTM)", "EBITDA (TTM)">>],
      [name |-> "PROFITABILITY & MARGINS",
       keys |-> <<"Profit Margin", "Operating Margin", "EBITDA Margin",
                  "Return on Equity (ROE)">>],
      [name |-> "GROWTH",
       keys |-> <<"Revenue Growth (YoY)", "Earnings Growth (YoY)">>],
      [name |-> "VALUATION",
       keys |-> <<"Current Price", "Market Cap", "52-Week High",
                  "52-Week Low", "Distance from 52W High", "P/E Ratio",
                  "Forward P/E", "Price to Sales (P/S)">>],
      [name |-> "DIVIDENDS", keys |-> <<"Dividend Yield", "Payout Ratio">>],
      [name |-> "RISK", keys |-> <<"Beta">>]>>

\* the metric labels of a sections dict, in row order
RECURSIVE SectionLabels(_)
SectionLabels(sections) ==
    IF sections = <<>> THEN <<>>
    ELSE sections[1].keys \o SectionLabels(Tail(sections))

\* ------------------------------------------------------------------------
\* get_stock_data (lines 14-22) and the market it reads
\* ------------------------------------------------------------------------
AA == <<"A", "A">>
BB == <<"B", "B">>

\* what a user types into a ticker cell: nothing, blanks, a symbol
TickerCells == {PyNone, Str(<<" ">>), Str(<<"a", "a", " ">>), Str(BB)}

Upper(chars) ==
    [i \in 1..Len(chars) |->
        CASE chars[i] = "a" -> "A" [] chars[i] = "b" -> "B" [] OTHER -> chars[i]]

RECURSIVE Strip(_)
Strip(chars) ==
    IF chars = <<>> THEN chars
    ELSE IF chars[1] = " " THEN Strip(Tail(chars))
    ELSE IF chars[Len(chars)] = " " THEN Strip(SubSeq(chars, 1, Len(chars) - 1))
    ELSE chars

\* str(v) inside an f-string
FStr(v) == IF v.t = "None" THEN <<"N", "o", "n", "e">> ELSE v.s

FullFrame(rows) ==
    [kind |-> "frame",
     row |-> [r \in RowSet(rows) |->
                [st |-> "ok", v |-> CHOOSE v \in CellValues(r) : v.t = "num"]]]

\* AA: every quote field and statement row reported.  BB: a thin listing,
\* with trailingPE sent as the text Infinity, no net income row, an EBITDA
\* cell that is NaN and no cash-flow table.
InfoOf(ticker) ==
    IF ticker = AA THEN FullInfo
    ELSE [EmptyInfo EXCEPT !.f["currentPrice"] = Num(42, 0),
                           !.f["trailingPE"] = Infinity,
                           !.f["beta"] = Num(8, -1),
                           !.f["returnOnEquity"] = Zero]

StockOf(ticker) ==
    IF ticker = AA
      THEN [financials |-> FullFrame(FinRows), cashflow |-> FullFrame(CfRows)]
      ELSE [financials |->
              [FullFrame(FinRows) EXCEPT
                 !.row["Net Income"] = [st |-> "missing", v |-> PyNone],
                 !.row["EBITDA"] = [st |-> "ok", v |-> NaN]],
            cashflow |-> NoFrame("None", CfRows)]

\* What one call gives: "trinull" (an exception: None, None, None),
\* "histNone", "histEmpty" (an unknown symbol), "infoNone", "ok".
FetchKinds == {"trinull", "histNone", "histEmpty", "infoNone", "ok"}

KindsFor(ticker) ==
    IF ticker \in {AA, BB} THEN FetchKinds ELSE {"trinull", "histEmpty"}

get_stock_data(ticker, kind) ==
    [stock |-> IF kind = "trinull" THEN "None" ELSE "Ticker",
     tables |-> StockOf(ticker),
     hist |-> CASE kind \in {"trinull", "histNone"} -> "None"
                [] kind = "histEmpty" -> "empty"
                [] OTHER -> "rows",
     info |-> IF kind \in {"trinull", "infoNone"} THEN NoInfo ELSE InfoOf(ticker)]

\* the test without its last operand: info is not looked at
AnalyzeFetchFailedInfoUnchecked(d) ==
    d.stock = "None" \/ d.hist = "None" \/ d.hist = "empty"

\* line 402: stock is None or hist is None or hist.empty or info is None
AnalyzeFetchFailed(d) ==
    d.stock = "None" \/ d.hist = "None" \/ d.hist = "empty" \/ d.info.isNone

\* line 701: stock and hist is not None and not hist.empty
CompareFetchOk(d) ==
    d.stock # "None" /\ d.hist # "None" /\ d.hist # "empty"

\* ------------------------------------------------------------------------
\* Sheet cells
\* ------------------------------------------------------------------------
\* A cell holds a literal text lit followed by a value v; an empty cell
\* holds None.
Blank == [lit |-> "", v |-> PyNone]
Text(lit) == [lit |-> lit, v |-> Str(<<>>)]
TextWith(lit, chars) == [lit |-> lit, v |-> Str(chars)]
Val(v) == [lit |-> "", v |-> v]

\* a picture of a sheet: its name, and whether the run that is going on (or
\* the last one) drew it
NoPicture == [name |-> "", fresh |-> FALSE]
Picture(name) == [name |-> name, fresh |-> TRUE]
Stale(pic) == [pic EXCEPT !.fresh = FALSE]

\* a write of one sheet row: column A, and column B when wb
WriteA(row, a) == [row |-> row, a |-> a, b |-> Blank, wb |-> FALSE]
WriteAB(row, a, b) == [row |-> row, a |-> a, b |-> b, wb |-> TRUE]

\* ------------------------------------------------------------------------
\* analyze_stock (lines 370-643)
\* ------------------------------------------------------------------------
SingleRows == 7..46

BlankSingle == [r \in SingleRows |-> [a |-> Blank, b |-> Blank]]

\* lines 429-452: the company header and the KEY METRICS title
HeaderWrites(ticker, info) ==
    <<WriteA(7, TextWith("STOCK ANALYSIS: ", ticker)),
      WriteA(8, TextWith("Company: ",
                         FStr(Get(InfoField(info, "longName"), Str(ticker))))),
      WriteA(9, TextWith("Sector: | Industry: ",
                         FStr(Get(InfoField(info, "sector"), NA)) \o <<"|">>
                         \o FStr(Get(InfoField(info, "industry"), NA)))),
      WriteA(10, Text("Analysis Date: ")),
      WriteA(12, Text("KEY METRICS"))>>

\* lines 505-518: the rows of one section, from row on
SectionRows(keys, row, metrics) ==
    [i \in 1..Len(keys) |->
        WriteAB(row + i - 1, Text(keys[i]), Val(MetricsGet(metrics, keys[i], NA)))]

\* lines 495-520: one block of writes per section, the first at row
RECURSIVE SectionBlocks(_, _, _)
SectionBlocks(sections, row, metrics) ==
    IF sections = <<>> THEN <<>>
    ELSE <<<<WriteA(row, Text(sections[1].name))>>
           \o SectionRows(sections[1].keys, row + 1, metrics)>>
         \o SectionBlocks(Tail(sections), row + Len(sections[1].keys) + 2, metrics)

\* the blocks analyze_stock writes, in order: header, then the sections
SingleBlocks(ticker, info, metrics) ==
    <<HeaderWrites(ticker, info)>> \o SectionBlocks(SingleSections, 14, metrics)

RECURSIVE Flatten(_)
Flatten(blocks) ==
    IF blocks = <<>> THEN <<>> ELSE blocks[1] \o Flatten(Tail(blocks))

\* the last of a non-empty set of positions
Last(hits) == CHOOSE i \in hits : \A j \in hits : j <= i

\* the area after the writes, made in order: a later write to a cell
\* replaces an earlier one
ApplySingle(area, writes) ==
    [r \in DOMAIN area |->
        LET as == {i \in 1..Len(writes) : writes[i].row = r}
            bs == {i \in as : writes[i].wb}
        IN  [a |-> IF as = {} THEN area[r].a ELSE writes[Last(as)].a,
             b |-> IF bs = {} THEN area[r].b ELSE writes[Last(bs)].b]]

\* the first k blocks
FirstBlocks(blocks, k) == SubSeq(blocks, 1, IF k < Len(blocks) THEN k ELSE Len(blocks))

\* the news scenarios an entry-point run meets
NewsScenarios ==
    {<<[kind |-> "list", items |-> <<"good", "notime">>],
       [kind |-> "status", items |-> <<>>]>>,
     <<[kind |-> "raise", items |-> <<>>],
       [kind |-> "ok", items |-> <<"good">>]>>,
     <<[kind |-> "raise", items |-> <<>>],
       [kind |-> "raise", items |-> <<>>]>>}

NoNews == [of |-> <<>>, titled |-> FALSE, items |-> <<>>]

\* ------------------------------------------------------------------------
\* compare_stocks (lines 657-931)
\* ------------------------------------------------------------------------
CompareRows == 10..46
CompareCols == 1..4

BlankCompare == [r \in CompareRows |-> [c \in CompareCols |-> Blank]]

\* lines 683-686: the non-blank cells, stripped and upper-cased, in order
RECURSIVE BuildTickers(_)
BuildTickers(cells) ==
    IF cells = <<>> THEN <<>>
    ELSE LET t == cells[1]
             rest == BuildTickers(Tail(cells))
         IN  IF Truthy(t) /\ Strip(t.s) # <<>>
               THEN <<Upper(Strip(t.s))>> \o rest
               ELSE rest

\* the ticker count test with the limit one lower: a single ticker passes
TooFewTickersNoneOnly(tickers) == Len(tickers) < 1

\* line 688
TooFewTickers(tickers) == Len(tickers) < 2

\* a write of one cell
Put(row, col, cell) == [row |-> row, col |-> col, cell |-> cell]

\* line 718
TitleBlock == <<Put(10, 1, Text("STOCK COMPARISON"))>>

\* a ticker column that is one to the left
TickerColumnOffByOne(i) == i

\* the column of the i-th ticker: compare_sheet.range(row, i + 2), i from 0
TickerColumn(i) == i + 1

\* lines 731-743
HeaderBlock(tickers) ==
    <<Put(12, 1, Text("Metric"))>>
    \o [i \in 1..Len(tickers) |-> Put(12, TickerColumn(i), TextWith("", tickers[i]))]

\* lines 746-756: the company names, up to the first ticker whose info is
\* None (info.get raises there)
FirstNoInfo(tickers, data) ==
    IF \E i \in 1..Len(tickers) : data[tickers[i]].info.isNone
      THEN CHOOSE i \in 1..Len(tickers) :
             /\ data[tickers[i]].info.isNone
             /\ \A j \in 1..(i - 1) : ~data[tickers[j]].info.isNone
      ELSE 0

CompanyBlock(tickers, data) ==
    LET stop == FirstNoInfo(tickers, data)
        last == IF stop = 0 THEN Len(tickers) ELSE stop - 1
    IN  <<Put(13, 1, Text("Company Name"))>>
        \o [i \in 1..last |->
              Put(13, TickerColumn(i),
                  TextWith("", FStr(Get(InfoField(data[tickers[i]].info, "longName"),
                                        Str(tickers[i])))))]

\* lines 785-786: the section name in column A and "" in the ticker columns
SectionHeader(name, row, n) ==
    <<Put(row, 1, Text(name))>> \o [i \in 1..n |-> Put(row, i + 1, Text(""))]

\* lines 793-811: one metric row
MetricRow(key, row, tickers, data) ==
    <<Put(row, 1, Text(key))>>
    \o [i \in 1..Len(tickers) |->
          Put(row, TickerColumn(i),
              Val(MetricsGet(data[tickers[i]].metrics, key, NA)))]

RECURSIVE MetricRows(_, _, _, _)
MetricRows(keys, row, tickers, data) ==
    IF keys = <<>> THEN <<>>
    ELSE MetricRow(keys[1], row, tickers, data)
         \o MetricRows(Tail(keys), row + 1, tickers, data)

RECURSIVE CompareSectionBlocks(_, _, _, _)
CompareSectionBlocks(sections, row, tickers, data) ==
    IF sections = <<>> THEN <<>>
    ELSE <<SectionHeader(sections[1].name, row, Len(tickers))
           \o MetricRows(sections[1].keys, row + 1, tickers, data)>>
         \o CompareSectionBlocks(Tail(sections),
                                 row + Len(sections[1].keys) + 2, tickers, data)

\* the blocks compare_stocks writes, in order; after the company block no
\* block is written when an info is None
CompareBlocks(tickers, data) ==
    <<TitleBlock, HeaderBlock(tickers), CompanyBlock(tickers, data)>>
    \o (IF FirstNoInfo(tickers, data) = 0
          THEN CompareSectionBlocks(CompareSections, 14, tickers, data)
          ELSE <<>>)

ApplyCompare(area, writes) ==
    [r \in DOMAIN area |->
        [c \in DOMAIN area[r] |->
            LET hits == {i \in 1..Len(writes) :
                            writes[i].row = r /\ writes[i].col = c}
            IN  IF hits = {} THEN area[r][c] ELSE writes[Last(hits)].cell]]

\* the except clause of lines 926-931: the status it leaves
Handler(status, h) == IF h = "ok" THEN Text("Error: ") ELSE status

\* ------------------------------------------------------------------------
\* State
\* ------------------------------------------------------------------------
VARIABLES
    x_stock,     \* get_statement_metrics: its argument
    x_out,       \* get_statement_metrics: the mapping returned
    x_done,      \* get_statement_metrics has returned
    k_info,      \* calculate_key_metrics: the quote snapshot
    k_sm,        \* calculate_key_metrics: the statement figures
    k_metrics,   \* calculate_key_metrics: the dict returned
    k_done,      \* calculate_key_metrics has returned
    n_primary,   \* get_stock_news: what the yfinance feed gives
    n_rss,       \* get_stock_news: what the Google News RSS request gives
    n_result,    \* get_stock_news: the list returned
    n_done,      \* get_stock_news has returned
    m_x,         \* fmt_money: its argument
    m_out,       \* fmt_money: the string returned
    m_done,      \* fmt_money has returned
    pc,          \* where the running entry point is; "idle" between runs
    faults,      \* how many collaborator calls have raised so far
    escaped,     \* the last run ended with an exception passed to the host
    s_status,    \* Single!B5
    s_area,      \* Single!A7:B46
    s_e7,        \* Single!E7
    s_pic,       \* the picture StockChart of sheet Single
    w_news,      \* sheet News
    a_ticker,    \* analyze_stock: ticker
    a_data,      \* analyze_stock: stock, hist, info
    a_metrics,   \* analyze_stock: metrics
    a_chart,     \* analyze_stock: how the chart block ended
    c_status,    \* Compare!B7
    c_area,      \* Compare!A10:D46
    c_pic,       \* the picture ComparisonChart of sheet Compare
    c_tickers,   \* compare_stocks: tickers
    c_kinds,     \* compare_stocks: what each get_stock_data call gave
    c_data,      \* compare_stocks: stock_data
    c_chart      \* compare_stocks: how the chart block ended

vars == <<x_stock, x_out, x_done, k_info, k_sm, k_metrics, k_done,
          n_primary, n_rss, n_result, n_done, m_x, m_out, m_done,
          pc, faults, escaped, s_status, s_area, s_e7, s_pic, w_news,
          a_ticker, a_data, a_metrics, a_chart,
          c_status, c_area, c_pic, c_tickers, c_kinds, c_data, c_chart>>

extractVars == <<x_stock, x_out, x_done>>
metricsVars == <<k_info, k_sm, k_metrics, k_done>>
newsVars == <<n_primary, n_rss, n_result, n_done>>
moneyVars == <<m_x, m_out, m_done>>
singleVars == <<s_status, s_area, s_e7, s_pic, w_news,
                a_ticker, a_data, a_metrics, a_chart>>
compareVars == <<c_status, c_area, c_pic, c_tickers, c_kinds, c_data, c_chart>>
sheetVars == <<pc, faults, escaped, singleVars, compareVars>>

\* the workbook as it is opened: no output on any sheet
SheetsIdle ==
    /\ pc = "idle"
    /\ faults = 0
    /\ escaped = FALSE
    /\ s_status = Blank
    /\ s_area = BlankSingle
    /\ s_e7 = Blank
    /\ s_pic = NoPicture
    /\ w_news = NoNews
    /\ a_ticker = <<>>
    /\ a_data = get_stock_data(<<>>, "trinull")
    /\ a_metrics = <<>>
    /\ a_chart = "none"
    /\ c_status = Blank
    /\ c_area = BlankCompare
    /\ c_pic = NoPicture
    /\ c_tickers = <<>>
    /\ c_kinds = <<>>
    /\ c_data = <<>>
    /\ c_chart = "none"

MoneyIdle ==
    /\ m_x = PyNone
    /\ m_out = PyNone
    /\ m_done = FALSE

NewsIdle ==
    /\ n_primary = [kind |-> "None", items |-> <<>>]
    /\ n_rss = [kind |-> "status", items |-> <<>>]
    /\ n_result = <<>>
    /\ n_done = FALSE

ExtractIdle ==
    /\ x_stock = [financials |-> NoFrame("None", FinRows),
                  cashflow |-> NoFrame("None", CfRows)]
    /\ x_out = EmptyOut
    /\ x_done = FALSE

MetricsIdle ==
    /\ k_info = NoInfo
    /\ k_sm = EmptyOut
    /\ k_metrics = <<>>
    /\ k_done = FALSE

\* ------------------------------------------------------------------------
\* The statement extractor applied to every statement table
\* ------------------------------------------------------------------------
InitExtract ==
    /\ x_stock \in StockInputs
    /\ x_out = EmptyOut
    /\ x_done = FALSE
    /\ MetricsIdle
    /\ NewsIdle
    /\ MoneyIdle
    /\ SheetsIdle

Extract ==
    /\ ~x_done
    /\ x_out' = get_statement_metrics(x_stock)
    /\ x_done' = TRUE
    /\ UNCHANGED <<x_stock, metricsVars, newsVars, moneyVars, sheetVars>>

SpecExtract == InitExtract /\ [][Extract]_vars

\* ------------------------------------------------------------------------
\* The metrics calculator applied to every snapshot and figures mapping
\* ------------------------------------------------------------------------
InitMetrics ==
    /\ \E p \in MetricsInputs : k_info = p[1] /\ k_sm = p[2]
    /\ k_metrics = <<>>
    /\ k_done = FALSE
    /\ ExtractIdle
    /\ NewsIdle
    /\ MoneyIdle
    /\ SheetsIdle

Calculate ==
    /\ ~k_done
    /\ k_metrics' = calculate_key_metrics(k_info, k_sm)
    /\ k_done' = TRUE
    /\ UNCHANGED <<k_info, k_sm, extractVars, newsVars, moneyVars, sheetVars>>

SpecMetrics == InitMetrics /\ [][Calculate]_vars

\* ------------------------------------------------------------------------
\* The news retriever applied to every outcome of its two sources
\* ------------------------------------------------------------------------
InitNews ==
    /\ n_primary \in PrimaryInputs
    /\ n_rss \in RssInputs
    /\ n_result = <<>>
    /\ n_done = FALSE
    /\ ExtractIdle
    /\ MetricsIdle
    /\ MoneyIdle
    /\ SheetsIdle

FetchNews ==
    /\ ~n_done
    /\ n_result' = get_stock_news(n_primary, n_rss)
    /\ n_done' = TRUE
    /\ UNCHANGED <<n_primary, n_rss, extractVars, metricsVars, moneyVars,
                   sheetVars>>

SpecNews == InitNews /\ [][FetchNews]_vars

\* ------------------------------------------------------------------------
\* fmt_money applied to every money input
\* ------------------------------------------------------------------------
InitMoney ==
    /\ m_x \in MoneyInputs
    /\ m_out = PyNone
    /\ m_done = FALSE
    /\ ExtractIdle
    /\ MetricsIdle
    /\ NewsIdle
    /\ SheetsIdle

Format ==
    /\ ~m_done
    /\ m_out' = fmt_money(m_x)
    /\ m_done' = TRUE
    /\ UNCHANGED <<m_x, extractVars, metricsVars, newsVars, sheetVars>>

SpecMoney == InitMoney /\ [][Format]_vars

\* ------------------------------------------------------------------------
\* analyze_stock, one action per block of the function
\* ------------------------------------------------------------------------
pureVars == <<extractVars, metricsVars, newsVars, moneyVars>>

\* a collaborator call that raises uses up one of the MaxFaults
Fault(k) == faults + k <= MaxFaults /\ faults' = faults + k

\* lines 371-398: read the inputs; write the input error or the progress
\* status.  ok = FALSE: the status write raises, and nothing catches it.
AnalyzeStart(cell, ok) ==
    /\ pc = "idle"
    /\ LET ticker == IF Truthy(cell) THEN Strip(Upper(cell.s)) ELSE <<>>
       IN  /\ a_ticker' = ticker
           /\ s_status' = CASE ~ok -> s_status
                            [] ~Truthy(cell) -> Text("Please enter a ticker symbol")
                            [] OTHER -> TextWith("Loading data for ", ticker)
           /\ pc' = IF ok /\ Truthy(cell) THEN "a_fetch" ELSE "idle"
    /\ escaped' = ~ok
    /\ IF ok THEN faults' = faults ELSE Fault(1)
    /\ a_data' = get_stock_data(<<>>, "trinull")
    /\ a_metrics' = <<>>
    /\ a_chart' = "none"
    /\ s_pic' = Stale(s_pic)
    /\ UNCHANGED <<s_area, s_e7, w_news, compareVars, pureVars>>

\* lines 401-404: fetch; on failure write the error status and return
AnalyzeFetch(kind, ok) ==
    /\ pc = "a_fetch"
    /\ kind \in KindsFor(a_ticker)
    /\ LET d == get_stock_data(a_ticker, kind)
       IN  /\ a_data' = d
           /\ IF AnalyzeFetchFailed(d)
                THEN /\ pc' = "idle"
                     /\ s_status' = IF ok
                          THEN TextWith("Error: Could not fetch data for ", a_ticker)
                          ELSE s_status
                     /\ escaped' = ~ok
                     /\ IF ok THEN faults' = faults ELSE Fault(1)
                ELSE /\ ok
                     /\ pc' = "a_clear"
                     /\ UNCHANGED <<s_status, escaped, faults>>
    /\ UNCHANGED <<s_area, s_e7, s_pic, w_news, a_ticker, a_metrics, a_chart,
                   compareVars, pureVars>>

\* lines 407-422: delete the old picture, clear A7:C200 (each may raise and
\* is then skipped), then compute the metrics
AnalyzeClear(delOk, clearOk) ==
    /\ pc = "a_clear"
    /\ (s_pic = NoPicture) => delOk
    /\ Fault((IF delOk THEN 0 ELSE 1) + (IF clearOk THEN 0 ELSE 1))
    /\ s_pic' = IF delOk THEN NoPicture ELSE s_pic
    /\ s_area' = IF clearOk THEN BlankSingle ELSE s_area
    /\ a_metrics' = calculate_key_metrics(a_data.info,
                                          get_statement_metrics(a_data.tables))
    /\ pc' = "a_table"
    /\ UNCHANGED <<s_status, s_e7, w_news, a_ticker, a_data, a_chart, escaped,
                   compareVars, pureVars>>

\* lines 424-531: the header and the sections, block by block.  failAt = 0:
\* every block is written; failAt = j > 0: a sheet call of block j raises
\* (j past the last block: the border and column formatting), which ends
\* the run with the exception.
AnalyzeTable(failAt) ==
    /\ pc = "a_table"
    /\ LET blocks == SingleBlocks(a_ticker, a_data.info, a_metrics)
       IN  /\ failAt \in 0..(Len(blocks) + 1)
           /\ s_area' = ApplySingle(s_area,
                  Flatten(IF failAt = 0 THEN blocks
                          ELSE FirstBlocks(blocks, failAt - 1)))
    /\ pc' = IF failAt = 0 THEN "a_chart" ELSE "idle"
    /\ escaped' = (failAt # 0)
    /\ IF failAt = 0 THEN faults' = faults ELSE Fault(1)
    /\ UNCHANGED <<s_status, s_e7, s_pic, w_news, a_ticker, a_data, a_metrics,
                   a_chart, compareVars, pureVars>>

\* lines 533-629: "ok": the picture StockChart is added or replaced;
\* "raise": drawing raises and E7 gets the error text; "unreported": the
\* write of E7 raises as well
AnalyzeChart(outcome) ==
    /\ pc = "a_chart"
    /\ outcome \in {"ok", "raise", "unreported"}
    /\ Fault(CASE outcome = "ok" -> 0 [] outcome = "raise" -> 1 [] OTHER -> 2)
    /\ s_pic' = IF outcome = "ok" THEN Picture("StockChart") ELSE s_pic
    /\ s_e7' = IF outcome = "raise" THEN Text("Chart error: ") ELSE s_e7
    /\ a_chart' = IF outcome = "ok" THEN "ok" ELSE "raise"
    /\ escaped' = (outcome = "unreported")
    /\ pc' = IF outcome = "unreported" THEN "idle" ELSE "a_news"
    /\ UNCHANGED <<s_status, s_area, w_news, a_ticker, a_data, a_metrics,
                   compareVars, pureVars>>

\* lines 632-635 and update_news_sheet (326-366): "ok": the sheet is
\* cleared and rewritten; "nosheet": the sheet lookup raises; "midway": a
\* write after the title raises.  The exception is caught in either case.
AnalyzeNews(outcome, sources) ==
    /\ pc = "a_news"
    /\ outcome \in {"ok", "nosheet", "midway"}
    /\ Fault(IF outcome = "ok" THEN 0 ELSE 1)
    /\ w_news' = CASE outcome = "ok"
                        -> [of |-> a_ticker, titled |-> TRUE,
                            items |-> get_stock_news(sources[1], sources[2])]
                   [] outcome = "midway"
                        -> [of |-> a_ticker, titled |-> TRUE, items |-> <<>>]
                   [] OTHER -> w_news
    /\ pc' = "a_finish"
    /\ UNCHANGED <<s_status, s_area, s_e7, s_pic, a_ticker, a_data, a_metrics,
                   a_chart, escaped, compareVars, pureVars>>

\* lines 638-643: "ok": the success status; "caught": a call of the try
\* block raises and the except clause writes its status; "escape": that
\* write raises too
AnalyzeFinish(outcome) ==
    /\ pc = "a_finish"
    /\ outcome \in {"ok", "caught", "escape"}
    /\ Fault(CASE outcome = "ok" -> 0 [] outcome = "caught" -> 1 [] OTHER -> 2)
    /\ s_status' = CASE outcome = "ok" -> TextWith("Analysis complete for ", a_ticker)
                     [] outcome = "caught" -> Text("Error at end: ")
                     [] OTHER -> s_status
    /\ escaped' = (outcome = "escape")
    /\ pc' = "idle"
    /\ UNCHANGED <<s_area, s_e7, s_pic, w_news, a_ticker, a_data, a_metrics,
                   a_chart, compareVars, pureVars>>

InitSheets ==
    /\ SheetsIdle
    /\ ExtractIdle
    /\ MetricsIdle
    /\ NewsIdle
    /\ MoneyIdle

NextAnalyze ==
    \/ \E cell \in TickerCells \cup {Str(<<>>)}, ok \in BOOLEAN : AnalyzeStart(cell, ok)
    \/ \E kind \in FetchKinds, ok \in BOOLEAN : AnalyzeFetch(kind, ok)
    \/ \E delOk \in BOOLEAN, clearOk \in BOOLEAN : AnalyzeClear(delOk, clearOk)
    \/ \E failAt \in 0..8 : AnalyzeTable(failAt)
    \/ \E outcome \in {"ok", "raise", "unreported"} : AnalyzeChart(outcome)
    \/ \E outcome \in {"ok", "nosheet", "midway"}, sources \in NewsScenarios :
          AnalyzeNews(outcome, sources)
    \/ \E outcome \in {"ok", "caught", "escape"} : AnalyzeFinish(outcome)

SpecAnalyze == InitSheets /\ [][NextAnalyze]_vars

\* ------------------------------------------------------------------------
\* compare_stocks, one action per block of the function.  Everything runs
\* inside the try of line 659; h says how its except clause ends: "none"
\* (not entered), "ok" (it writes its status) or "silent" (that write
\* raises too and is passed over).
\* ------------------------------------------------------------------------
HandlerFaults(h) == IF h = "silent" THEN 1 ELSE 0

\* lines 659-693.  outcome "ok"; "nosheet": the sheet lookup of line 661
\* raises (the except clause then has no sheet to write to); "raise": the
\* status write of line 689, or the clear of line 693, raises.
CompareStart(cells, outcome, h) ==
    /\ pc = "idle"
    /\ outcome \in {"ok", "nosheet", "raise"}
    /\ h \in {"none", "ok", "silent"}
    /\ (outcome = "ok") <=> (h = "none")
    /\ (outcome = "nosheet") => (h = "silent")
    /\ Fault(IF outcome = "ok" THEN 0
             ELSE IF outcome = "nosheet" THEN 1 ELSE 1 + HandlerFaults(h))
    /\ LET tickers == IF outcome = "nosheet" THEN <<>> ELSE BuildTickers(cells)
       IN  /\ c_tickers' = tickers
           /\ c_status' = CASE outcome = "nosheet" -> c_status
                            [] outcome = "raise" -> Handler(c_status, h)
                            [] TooFewTickers(tickers)
                                 -> Text("Please enter at least 2 tickers")
                            [] OTHER -> c_status
           /\ c_area' = IF outcome = "ok" /\ ~TooFewTickers(tickers)
                          THEN BlankCompare ELSE c_area
           /\ pc' = IF outcome = "ok" /\ ~TooFewTickers(tickers)
                      THEN "c_fetch" ELSE "idle"
    /\ c_kinds' = <<>>
    /\ c_data' = <<>>
    /\ c_chart' = "none"
    /\ escaped' = FALSE
    /\ c_pic' = Stale(c_pic)
    /\ UNCHANGED <<singleVars, pureVars>>

\* lines 697-712, one iteration: the progress status, the fetch, and the
\* metrics or the error status.  h # "none": the status write raises.
CompareFetch(kind, h) ==
    /\ pc = "c_fetch"
    /\ h \in {"none", "ok", "silent"}
    /\ LET i == Len(c_kinds) + 1
           ticker == c_tickers[i]
           d == get_stock_data(ticker, kind)
       IN  /\ kind \in KindsFor(ticker)
           /\ IF h # "none"
                THEN /\ Fault(1 + HandlerFaults(h))
                     /\ c_status' = Handler(c_status, h)
                     /\ pc' = "idle"
                     /\ UNCHANGED <<c_kinds, c_data>>
                ELSE /\ faults' = faults
                     /\ c_kinds' = Append(c_kinds, kind)
                     /\ IF CompareFetchOk(d)
                          THEN /\ c_data' =
                                    (ticker :>
                                       [info |-> d.info,
                                        metrics |-> calculate_key_metrics(
                                            d.info, get_statement_metrics(d.tables))])
                                    @@ c_data
                               /\ c_status' = TextWith("Loading ", ticker)
                               /\ pc' = IF i = Len(c_tickers) THEN "c_table"
                                        ELSE "c_fetch"
                          ELSE /\ c_data' = c_data
                               /\ c_status' = TextWith("Error loading - no data returned ",
                                                       ticker)
                               /\ pc' = "idle"
    /\ UNCHANGED <<c_area, c_pic, c_tickers, c_chart, escaped, singleVars, pureVars>>

\* lines 715-820: the title, the header row, the company names and the
\* sections, block by block.  failAt = 0: no sheet call raises; failAt =
\* j > 0: a sheet call of block j raises (j past the last block: the column
\* formatting and the status of line 820).  info.get on an info that is
\* None raises in the company block without any fault.
CompareTable(failAt, h) ==
    /\ pc = "c_table"
    /\ h \in {"none", "ok", "silent"}
    /\ LET blocks == CompareBlocks(c_tickers, c_data)
           broken == FirstNoInfo(c_tickers, c_data) # 0
           raised == broken \/ failAt # 0
       IN  /\ failAt \in 0..(Len(blocks) + 1)
           /\ broken => failAt <= 3
           /\ raised <=> (h # "none")
           /\ Fault((IF failAt = 0 THEN 0 ELSE 1) + HandlerFaults(h))
           /\ c_area' = ApplyCompare(c_area,
                  Flatten(IF failAt = 0 THEN blocks
                          ELSE FirstBlocks(blocks, failAt - 1)))
           /\ c_status' = IF raised
                            THEN Handler(IF failAt = 1 THEN c_status
                                         ELSE Text("Building comparison table..."), h)
                            ELSE Text("Creating chart...")
           /\ pc' = IF raised THEN "idle" ELSE "c_chart"
    /\ UNCHANGED <<c_pic, c_tickers, c_kinds, c_data, c_chart, escaped,
                   singleVars, pureVars>>

\* lines 823-924.  "ok": the picture ComparisonChart is added or replaced
\* and the success status written; "raise": drawing raises, line 922
\* writes the chart error into the status cell and line 924 then writes the
\* success status over it; "status": the chart is added and the status
\* write of line 924 raises.
CompareChart(outcome, h) ==
    /\ pc = "c_chart"
    /\ outcome \in {"ok", "raise", "status"}
    /\ h \in {"none", "ok", "silent"}
    /\ (outcome = "status") <=> (h # "none")
    /\ Fault((IF outcome = "ok" THEN 0 ELSE 1) + HandlerFaults(h))
    /\ c_pic' = IF outcome = "raise" THEN c_pic ELSE Picture("ComparisonChart")
    /\ c_chart' = IF outcome = "raise" THEN "raise" ELSE "ok"
    /\ c_status' = IF outcome = "status" THEN Handler(c_status, h)
                   ELSE Text("Comparison complete!")
    /\ pc' = "idle"
    /\ UNCHANGED <<c_area, c_tickers, c_kinds, c_data, escaped, singleVars, pureVars>>

CellTriples == TickerCells \X TickerCells \X TickerCells

NextCompare ==
    \/ \E cells \in CellTriples, outcome \in {"ok", "nosheet", "raise"},
          h \in {"none", "ok", "silent"} : CompareStart(cells, outcome, h)
    \/ \E kind \in FetchKinds, h \in {"none", "ok", "silent"} : CompareFetch(kind, h)
    \/ \E failAt \in 0..10, h \in {"none", "ok", "silent"} : CompareTable(failAt, h)
    \/ \E outcome \in {"ok", "raise", "status"}, h \in {"none", "ok", "silent"} :
          CompareChart(outcome, h)

SpecCompare == InitSheets /\ [][NextCompare]_vars

\* ========================================================================
\* Claims
\* ========================================================================
RawLabels == {"Current Price", "P/E Ratio", "Forward P/E",
              "Price to Sales (P/S)", "Beta"}
RoundedLabels == RawLabels \ {"Current Price"}

\* C1: for every input the dict calculate_key_metrics returns holds exactly
\* the 21 defined labels, in the order of the renderers' sections.
C1_AllLabelsInOrder ==
    k_done => Keys(k_metrics) = SectionLabels(SingleSections)

\* C2 (as stated): every value calculate_key_metrics stores is a string (a
\* formatted display string or "N/A"), never a raw number.
C2_EveryValueIsString ==
    k_done => \A i \in 1..Len(k_metrics) : k_metrics[i].v.t = "str"

\* C2 (amended): every value is a string, except under five labels;
\* Current Price holds the currentPrice field as it is ("N/A" only when the
\* key is absent), and P/E Ratio, Forward P/E, Price to Sales (P/S) and Beta
\* hold "N/A" or a raw number.
C2_StringsExceptRawLabels ==
    k_done =>
      \A i \in 1..Len(k_metrics) :
        LET e == k_metrics[i]
        IN  /\ e.k \notin RawLabels => e.v.t = "str"
            /\ e.k \in RoundedLabels => (e.v = NA \/ e.v.t = "num")
            /\ e.k = "Current Price"
                 => e.v = Get(k_info.f["currentPrice"], NA)

\* C2 witness: a full table whose money and percentage values are strings
\* while Current Price and P/E Ratio are numbers.
C2_Witness ==
    /\ k_done
    /\ Len(k_metrics) = 21
    /\ MetricsGet(k_metrics, "Current Price", NA).t = "num"
    /\ MetricsGet(k_metrics, "P/E Ratio", NA).t = "num"
    /\ MetricsGet(k_metrics, "Revenue (TTM)", NA)
         = Str(<<"$", "3", "9", "4", ".", "3", "0", "B">>)
    /\ MetricsGet(k_metrics, "Profit Margin", NA)
         = Str(<<"2", "5", ".", "3", "6", "%">>)

\* C3: whatever the two news sources do, get_stock_news returns a list of
\* at least 1 and at most 10 items.
C3_BetweenOneAndTenItems ==
    n_done => Len(n_result) >= 1 /\ Len(n_result) <= NewsCap

\* C6: every statement row that is present and readable in a table that is
\* a frame is returned with its value, whatever happens to the other rows.
C6_ReadableRowsReturned ==
    x_done =>
      /\ \A i \in 1..Len(FinRows) :
           (x_stock.financials.kind = "frame"
            /\ x_stock.financials.row[FinRows[i]].st = "ok")
             => x_out[FinKeys[i]] = x_stock.financials.row[FinRows[i]].v
      /\ \A i \in 1..Len(CfRows) :
           (x_stock.cashflow.kind = "frame"
            /\ x_stock.cashflow.row[CfRows[i]].st = "ok")
             => x_out[CfKeys[i]] = x_stock.cashflow.row[CfRows[i]].v

\* ------------------------------------------------------------------------
\* Claims about the entry points
\* ------------------------------------------------------------------------
\* some get_stock_data call of the last comparison did not give a stock, a
\* history with rows and an info
AcquisitionFailed == \E i \in 1..Len(c_kinds) : c_kinds[i] # "ok"

\* C4: when acquisition fails for one of the tickers, the comparison run
\* ends with no cell of the comparison table written.
C4_NoCellWrittenOnFailure ==
    (pc = "idle" /\ AcquisitionFailed) => c_area = BlankCompare

ProgressTexts == {"Loading data for ", "Loading ",
                  "Building comparison table...", "Creating chart..."}

\* C5: every run ends without an exception passed to the host and with a
\* terminal message, not a progress message, in the status cell.
C5_TerminalStatusNoEscape ==
    pc = "idle" =>
      /\ ~escaped
      /\ s_status.lit \notin ProgressTexts
      /\ c_status.lit \notin ProgressTexts

SingleTableComplete ==
    \A r \in SingleRows :
        s_area[r] = ApplySingle(BlankSingle,
                        Flatten(SingleBlocks(a_ticker, a_data.info, a_metrics)))[r]

CompareTableComplete ==
    c_area = ApplyCompare(BlankCompare, Flatten(CompareBlocks(c_tickers, c_data)))

ChartErrorShown(cell) == cell.lit = "Chart error: "

\* C7: after a run whose chart block raised, the table of that run is
\* complete and the chart error is still shown on the sheet.
C7_ChartFailureStaysReported ==
    /\ (pc = "idle" /\ a_chart = "raise" /\ ~escaped)
         => (SingleTableComplete /\ ChartErrorShown(s_e7))
    /\ (pc = "idle" /\ c_chart = "raise")
         => (CompareTableComplete
             /\ (ChartErrorShown(c_status)
                 \/ \E r \in CompareRows, c \in CompareCols :
                       ChartErrorShown(c_area[r][c])))

\* C8: after a run that wrote its table, the sheet shows what that run
\* wrote and nothing of an earlier run: no other cell content, no chart
\* error text and no picture of an earlier run.
C8_NoLeftoverAfterRun ==
    /\ (pc = "idle" /\ a_chart # "none" /\ ~escaped) =>
         /\ SingleTableComplete
         /\ s_e7 = (IF a_chart = "raise" THEN Text("Chart error: ") ELSE Blank)
         /\ s_pic = (IF a_chart = "ok" THEN Picture("StockChart") ELSE NoPicture)
    /\ (pc = "idle" /\ c_chart # "none") =>
         /\ CompareTableComplete
         /\ c_pic = (IF c_chart = "ok" THEN Picture("ComparisonChart")
                     ELSE NoPicture)

TooFewStatus == Text("Please enter at least 2 tickers")

\* C9 (as stated): after a run with fewer than 2 tickers the status cell
\* holds the input error, no fetch was made and the sheet shows no
\* comparison table.
C9_NoTableAfterTooFewTickers ==
    (pc = "idle" /\ c_status = TooFewStatus) =>
        (c_kinds = <<>> /\ c_area = BlankCompare)

\* C9 (amended): a run started with fewer than 2 tickers ends at once; it
\* makes no fetch and leaves the comparison area and the picture as they
\* were, and the status cell gets the input error (when a sheet call
\* raises: the except clause's status, or nothing).
C9_TooFewTickersLeavesSheet ==
    [][(pc = "idle" /\ Len(c_tickers') < 2) =>
         /\ pc' = "idle"
         /\ c_kinds' = <<>>
         /\ c_area' = c_area
         /\ c_pic'.name = c_pic.name
         /\ IF faults' = faults THEN c_status' = TooFewStatus
            ELSE c_status' \in {Text("Error: "), c_status}]_vars

\* C9 witness: the input error is shown while the table of an earlier
\* comparison is still on the sheet.
C9_Witness ==
    /\ pc = "idle"
    /\ c_status = TooFewStatus
    /\ Len(c_tickers) = 1
    /\ c_area[12][1] = Text("Metric")
    /\ c_pic.name = "ComparisonChart"

MetricLabels == {MetricOrder[i] : i \in 1..Len(MetricOrder)}

\* the metric labels of column A of the comparison area, in row order
CompareModeLabels ==
    LET rows == {r \in CompareRows : c_area[r][1].lit \in MetricLabels}
    IN  [k \in 1..Cardinality(rows) |->
            c_area[CHOOSE r \in rows :
                      Cardinality({q \in rows : q < r}) = k - 1][1].lit]

\* the metric labels single-stock mode writes, in row order
SingleModeLabels ==
    LET writes == Flatten(SectionBlocks(SingleSections, 14, <<>>))
        rows == SelectSeq(writes, LAMBDA w : w.wb)
    IN  [i \in 1..Len(rows) |-> rows[i].a.lit]

\* the MetricsTable of a ticker, from the market's data
MetricsOf(ticker) ==
    calculate_key_metrics(InfoOf(ticker), get_statement_metrics(StockOf(ticker)))

\* the last comparison run reached its end (the chart step was taken)
Completed ==
    pc = "idle" /\ c_chart # "none" /\ c_status = Text("Comparison complete!")

\* C10: a completed comparison of n tickers has the Metric column and
\* exactly n value columns in input order, its metric rows are those of
\* single-stock mode in the same order, and the cell of label L in ticker
\* T's column is the value T's MetricsTable gives for L ("N/A" for a label
\* the table does not hold).
C10_ComparisonLayout ==
    Completed =>
      LET n == Len(c_tickers)
      IN  /\ n \in {2, 3}
          /\ c_area[12][1] = Text("Metric")
          /\ \A i \in 1..n : c_area[12][i + 1] = TextWith("", c_tickers[i])
          /\ \A r \in CompareRows : \A c \in (n + 2)..4 : c_area[r][c] = Blank
          /\ CompareModeLabels = SingleModeLabels
          /\ \A r \in CompareRows :
               c_area[r][1].lit \in MetricLabels =>
                 \A i \in 1..n :
                   c_area[r][i + 1]
                     = Val(MetricsGet(MetricsOf(c_tickers[i]), c_area[r][1].lit, NA))

\* C10 witness: a completed comparison of three tickers, the first entered
\* again as the third, whose Beta row shows each ticker's own value.
C10_Witness ==
    /\ Completed
    /\ c_tickers = <<AA, BB, AA>>
    /\ c_area[45][1] = Text("Beta")
    /\ c_area[45][2] = Val(Num(123, -2))
    /\ c_area[45][3] = Val(NA)
    /\ c_area[45][4] = Val(Num(123, -2))
    /\ c_area[14][2] = Text("")
    /\ c_area[15][3] = Val(Str(<<"$", "3", "9", "4", ".", "3", "0", "B">>))

\* ------------------------------------------------------------------------
\* Claims about fmt_money
\* ------------------------------------------------------------------------
\* the suffix the claim gives an amount of magnitude a * 10^ex
UnitOf(a, ex) ==
    IF GePow10(a, ex, 12) THEN "T"
    ELSE IF GePow10(a, ex, 9) THEN "B"
    ELSE IF GePow10(a, ex, 6) THEN "M"
    ELSE ""

\* "$" and comma-grouped digits, nothing else
PlainDollars(body) ==
    /\ Len(body) >= 2
    /\ body[1] = "$"
    /\ \A i \in 2..Len(body) : IsDigit(body[i]) \/ body[i] = ","

\* "$", digits, a point, two digits and the suffix
UnitDollars(body, unit) ==
    LET n == Len(body)
    IN  /\ n >= 6
        /\ body[1] = "$"
        /\ body[n] = unit
        /\ IsDigit(body[n - 1]) /\ IsDigit(body[n - 2])
        /\ body[n - 3] = "."
        /\ \A i \in 2..(n - 4) : IsDigit(body[i])

\* the text holds no number float() could read
NonNumericText(x) ==
    x.t = "str" /\ ToFloat(x).t = "raise"

\* C11: a numeric input is rendered with the suffix its magnitude selects
\* (T, B, M, or none and then as comma-grouped integer dollars), always with
\* "$", a negative amount as "-" before the rendering of its positive
\* counterpart; None and a non-numeric input give "N/A".
C11_UnitByMagnitude ==
    m_done =>
      CASE m_x.t = "num" ->
             LET neg == m_x.n < 0
                 body == IF neg THEN Tail(m_out.s) ELSE m_out.s
                 unit == UnitOf(Abs(m_x.n), m_x.e)
             IN  /\ m_out.t = "str"
                 /\ neg => m_out.s[1] = "-"
                 /\ neg => body = fmt_money(Num(-m_x.n, m_x.e)).s
                 /\ IF unit = "" THEN PlainDollars(body)
                    ELSE UnitDollars(body, unit)
        [] m_x.t = "nan" -> m_out.t = "str" /\ PlainDollars(m_out.s)
        [] m_x.t = "None" \/ NonNumericText(m_x) -> m_out = NA
        [] OTHER -> TRUE

\* ------------------------------------------------------------------------
\* Claims about the derivations of calculate_key_metrics
\* ------------------------------------------------------------------------
\* the returned mapping holds "N/A" under the label
IsNA(label) == MetricsGet(k_metrics, label, Absent) = NA

NoneOrZero(v) == v.t = "None" \/ (v.t = "num" /\ v.n = 0)

\* the snapshot holds a value other than None under the key
FieldPresent(key) ==
    ~k_info.isNone /\ Get(InfoField(k_info, key), PyNone).t # "None"

\* C12: the three margins are "N/A" when Revenue is None or 0, each margin
\* is "N/A" when its numerator is None, and Distance from 52W High is "N/A"
\* unless currentPrice and fiftyTwoWeekHigh are both present.
C12_MissingOperandGivesNA ==
    k_done =>
      /\ NoneOrZero(k_sm["Revenue (TTM)"])
           => (IsNA("Profit Margin") /\ IsNA("Operating Margin")
               /\ IsNA("EBITDA Margin"))
      /\ k_sm["Net Income (TTM)"].t = "None" => IsNA("Profit Margin")
      /\ k_sm["Operating Income (TTM)"].t = "None" => IsNA("Operating Margin")
      /\ k_sm["EBITDA (TTM)"].t = "None" => IsNA("EBITDA Margin")
      /\ ~(FieldPresent("currentPrice") /\ FieldPresent("fiftyTwoWeekHigh"))
           => IsNA("Distance from 52W High")

\* ------------------------------------------------------------------------
\* Claims about get_statement_metrics
\* ------------------------------------------------------------------------
\* C13: in the returned mapping Free Cash Flow is Cash From Ops + CapEx
\* when both of them are not None, and None when either is None.
C13_FreeCashFlowIsSum ==
    x_done =>
      LET cfo == x_out["Cash From Ops (TTM)"]
          capex == x_out["CapEx (TTM)"]
          fcf == x_out["Free Cash Flow (TTM)"]
      IN  IF cfo.t # "None" /\ capex.t # "None"
            THEN fcf = PyAdd(cfo, capex)
            ELSE fcf = PyNone

\* C13 witness: operations gave 5,000,000,000 and CapEx was -1,200,000,000,
\* and the mapping returned holds 3,800,000,000 as Free Cash Flow.
C13_Witness ==
    /\ x_done
    /\ x_out["Cash From Ops (TTM)"] = Num(5, 9)
    /\ x_out["CapEx (TTM)"] = Num(-12, 8)
    /\ x_out["Free Cash Flow (TTM)"] = Num(38, 8)

\* ------------------------------------------------------------------------
\* Claims about a failed acquisition in analyze_stock
\* ------------------------------------------------------------------------
\* a tri-null result, a missing or empty history, or a missing info
AcquisitionFails(d) ==
    d.stock = "None" \/ d.hist = "None" \/ d.hist = "empty" \/ d.info.isNone

\* the output of the previous run on the sheets Single and News stays
PreviousOutputStays ==
    /\ s_area' = s_area
    /\ s_e7' = s_e7
    /\ s_pic'.name = s_pic.name
    /\ w_news' = w_news

\* C14: a run of analyze_stock whose acquisition fails leaves the previous
\* output as it was from its start on, computes no metrics, draws no chart
\* and ends at the fetch test with the one error status (written unless the
\* write itself raises).
C14_FetchFailureLeavesOutput ==
    [][/\ (pc = "idle" /\ pc' = "a_fetch") => PreviousOutputStays
       /\ (pc = "a_fetch" /\ AcquisitionFails(a_data')) =>
             /\ pc' = "idle"
             /\ PreviousOutputStays
             /\ a_metrics' = <<>>
             /\ a_chart' = "none"
             /\ faults' = faults =>
                  /\ ~escaped'
                  /\ s_status' = TextWith("Error: Could not fetch data for ",
                                          a_ticker)]_vars

\* C14 witness: the fetch for AA failed and the error status is shown,
\* while table, chart and news of an earlier analysis of AA are still there.
C14_Witness ==
    /\ pc = "idle"
    /\ AcquisitionFails(a_data)
    /\ a_data.stock # "None"
    /\ s_status = TextWith("Error: Could not fetch data for ", AA)
    /\ a_metrics = <<>>
    /\ s_area[7].a = TextWith("STOCK ANALYSIS: ", AA)
    /\ s_area[45].b = Val(Num(123, -2))
    /\ s_pic.name = "StockChart"
    /\ w_news.titled

\* ------------------------------------------------------------------------
\* Claims about exceptions inside the extractor and the calculator
\* ------------------------------------------------------------------------
\* reading the row of the key raises, or a row read before it in the same
\* table does
StatementReadRaises(tbl, rows, i) ==
    tbl.kind = "raise"
    \/ (tbl.kind = "frame" /\ \E j \in 1..i : tbl.row[rows[j]].st = "raise")

\* C15: both functions return a mapping for every input, and a field whose
\* lookup or derivation raises is degraded in it: None in the extractor's
\* mapping, "N/A" in the calculator's.
C15_RaiseDegradesField ==
    /\ x_done =>
         /\ DOMAIN x_out = StmtKeys
         /\ \A i \in 1..Len(FinRows) :
              StatementReadRaises(x_stock.financials, FinRows, i)
                => x_out[FinKeys[i]] = PyNone
         /\ \A i \in 1..Len(CfRows) :
              StatementReadRaises(x_stock.cashflow, CfRows, i)
                => x_out[CfKeys[i]] = PyNone
    /\ k_done =>
         \A i \in 1..Len(MetricOrder) :
            MetricValue(MetricOrder[i], k_info, k_sm).raise
              => MetricsGet(k_metrics, MetricOrder[i], Absent) = NA

\* ------------------------------------------------------------------------
\* Claims about fields that are 0
\* ------------------------------------------------------------------------
\* quote field and label of the metrics guarded by "if v"
TruthinessChecked ==
    {<<"beta", "Beta">>, <<"fiftyTwoWeekHigh", "52-Week High">>,
     <<"fiftyTwoWeekLow", "52-Week Low">>, <<"trailingPE", "P/E Ratio">>,
     <<"forwardPE", "Forward P/E">>,
     <<"priceToSalesTrailing12Months", "Price to Sales (P/S)">>}

\* quote field and label of the metrics guarded by "if v is not None"
NoneChecked ==
    {<<"returnOnEquity", "Return on Equity (ROE)">>,
     <<"revenueGrowth", "Revenue Growth (YoY)">>,
     <<"earningsGrowth", "Earnings Growth (YoY)">>,
     <<"dividendYield", "Dividend Yield">>,
     <<"payoutRatio", "Payout Ratio">>}

ZeroPercent == Str(<<"0", ".", "0", "0", "%">>)

\* C16: for a snapshot that is a mapping, a truthiness-checked metric is
\* "N/A" when its field is 0 or absent; a None-checked percentage metric is
\* "0.00%" when its field is 0 and "N/A" when (and only when) the field is
\* absent or None.
C16_ZeroLikeAbsent ==
    (k_done /\ ~k_info.isNone) =>
      /\ \A p \in TruthinessChecked :
           InfoField(k_info, p[1]) \in {Zero, Absent} => IsNA(p[2])
      /\ \A p \in NoneChecked :
           /\ InfoField(k_info, p[1]) = Zero
                => MetricsGet(k_metrics, p[2], Absent) = ZeroPercent
           /\ InfoField(k_info, p[1]) \in {Absent, PyNone} <=> IsNA(p[2])

\* ------------------------------------------------------------------------
\* Claims about truncated mappings and the renderers
\* ------------------------------------------------------------------------
IsPrefix(s1, s2) ==
    Len(s1) <= Len(s2) /\ \A i \in 1..Len(s1) : s1[i] = s2[i]

CanonicalLabels == SectionLabels(SingleSections)

\* what the renderers show for the i-th canonical label
Shown(i) == Val(IF i <= Len(k_metrics) THEN k_metrics[i].v ELSE NA)

\* the metric rows single-stock mode writes for the mapping
SingleMetricRows ==
    SelectSeq(Flatten(SectionBlocks(SingleSections, 14, k_metrics)),
              LAMBDA w : w.wb)

\* the cells comparison mode writes for a ticker with the mapping
CompareMetricPuts ==
    Flatten(CompareSectionBlocks(CompareSections, 14, <<AA>>,
                (AA :> [info |-> k_info, metrics |-> k_metrics])))

SourcesOf(items) == {items[i].src : i \in 1..Len(items)}

\* C18: a returned list holds items of exactly one source (primary feed, RSS
\* fallback or the placeholder), and the placeholder is returned only as the
\* whole list, when neither source put an item into it.
C18_SingleSource ==
    n_done =>
      /\ Cardinality(SourcesOf(n_result)) = 1
      /\ "placeholder" \in SourcesOf(n_result) => n_result = <<Placeholder>>

====
